---------------------------- MODULE Spec2Model ----------------------------
(***************************************************************************)
(* Comment anchor server (LSP proof of concept).                           *)
(*                                                                         *)
(* The model follows the server draft that the client extension talks to   *)
(* (comment.add with three arguments: uri, range, message).  One tracked   *)
(* source file is modelled; its text is a sequence of lines, each line an  *)
(* abstract content value (a natural number).  The comment file of the     *)
(* source file is kept in `store`, under the location getCommentFilePath   *)
(* resolves it to.  Request handlers are run by the members of Procs: a    *)
(* comment.add request is executed in the steps between which the code     *)
(* touches the file system (capture, load, save, the two refreshes), a     *)
(* didOpen / didChange request in one step.  Save is os.WriteFile with no  *)
(* other step between its open and its write; OpenTruncate and WriteData   *)
(* are the same call with the file system seen in between.                 *)
(***************************************************************************)
EXTENDS Integers, Sequences, FiniteSets, TLC

(***************************************************************************)
(* Program constants.                                                      *)
(***************************************************************************)
contextBefore == 5
contextAfter == 5
Half == 65536      \* 2^16: a uint32 is kept as its two 16-bit halves

(***************************************************************************)
(* Bounds of the model.                                                    *)
(***************************************************************************)
NumLines == 13      \* lines of the source file in the initial state
MaxEdits == 1       \* edits of the working copy
MaxCommits == 2     \* commits of the repository
MaxAdds == 2        \* comment.add requests

Procs == {"p1", "p2"}
Messages == {"fix this", "why", "todo", "old"}
InsertSizes == {3}      \* lines inserted by one edit
Branches == {"main", "side"}
NoFile == [exists |-> FALSE]
NoCommit == ""      \* the empty commit hash: no commit, no parent, no branch
CommitIds == <<"c1", "c2", "c3", "c4", "c5">>

(***************************************************************************)
(* Requested ranges (start line, end line): a selection with its whole     *)
(* context window inside the file, selections whose window is clamped at   *)
(* the start and at the end of the file, and a selection whose start is    *)
(* after its end.                                                          *)
(***************************************************************************)
Inside == [start |-> 6, end |-> 7]
AtStart == [start |-> 0, end |-> 0]
AtEnd == [start |-> NumLines - 1, end |-> NumLines - 1]
Reversed == [start |-> 12, end |-> 0]

Ranges == {Inside, AtStart, AtEnd, Reversed}

\* the comment.add requests of the model: a range and a message
Request(rng, msg) == [rng |-> rng, msg |-> msg]

Requests ==
    { Request(Inside, "fix this"), Request(AtStart, "why"), Request(AtEnd, "todo"),
      Request(Reversed, "old") }

FewRequests == {Request(Inside, "fix this"), Request(AtStart, "why")}

VARIABLES
    content,    \* the source file on disk: strings.Split(text, "\n")
    buffer,     \* the text of the source file in the editor
    edits,      \* number of edits made to the working copy
    repo,       \* whether the source file lies in a git repository
    commits,    \* number of commits made in the repository
    parent,     \* commit -> parent commit (NoCommit for the root)
    tips,       \* branch -> tip commit (NoCommit: no such branch)
    current,    \* the checked-out branch
    store,      \* comment file location -> CommentFile, or NoFile
    proc,       \* handler -> its position and locals
    adds,       \* number of comment.add requests received
    pass,       \* the last run of publishDiagnostics: what it read and did
    markers,    \* the diagnostics the editor holds for the uri
    stale,      \* history: some run so far left the anchors of a file unreported
    reply       \* the last reply the server sent to a request

vars ==
    <<content, buffer, edits, repo, commits, parent, tips, current, store, proc, adds, pass, markers,
      stale, reply>>

-----------------------------------------------------------------------------
(***************************************************************************)
(* Helpers on sequences.                                                   *)
(***************************************************************************)
Min(a, b) == IF a < b THEN a ELSE b
Max(a, b) == IF a > b THEN a ELSE b

Repeat(x, n) == [i \in 1..n |-> x]

\* lines[i], with Go's 0-based index
At(lines, i) == lines[i + 1]

\* the text with n lines of content x inserted before the 0-based line pos
InsertAt(lines, pos, n, x) ==
    SubSeq(lines, 1, pos) \o Repeat(x, n) \o SubSeq(lines, pos + 1, Len(lines))

IsPrefix(s, t) == Len(s) <= Len(t) /\ SubSeq(t, 1, Len(s)) = s

\* uint32(x) of a Go int x, |x| < 2^31: the value x mod 2^32, kept as
\* hi * 2^16 + lo
ToUint32(x) == [hi |-> (x \div Half) % Half, lo |-> x % Half]


-----------------------------------------------------------------------------
(***************************************************************************)
(* generateAndSaveCommentPatch, the capture of the context hunk.           *)
(* A patch text is the sequence of its hunks ("" is the empty sequence);    *)
(* a hunk is the four numbers of its "@@ -a,b +c,d @@" header and its body *)
(* lines, each body line a sign and a line content.                        *)
(***************************************************************************)
ClampLine(line, linesCount) == IF line >= linesCount THEN linesCount - 1 ELSE line

ContextStartOf(startLine) == Max(startLine - contextBefore, 0)

ContextEndOf(endLine, linesCount) == Min(endLine + contextAfter + 1, linesCount)

BodyLines(lines, from, to, sign) ==
    IF to < from THEN <<>>
    ELSE [k \in 1..(to - from + 1) |-> [sign |-> sign, text |-> At(lines, from + k - 1)]]

BuildPatchText(lines, rng) ==
    LET linesCount == Len(lines)
        startLine == ClampLine(rng.start, linesCount)
        endLine == ClampLine(rng.end, linesCount)
        contextStart == ContextStartOf(startLine)
        contextEnd == ContextEndOf(endLine, linesCount)
    IN  << [ start1 |-> contextStart + 1,
             length1 |-> contextEnd - contextStart,
             start2 |-> contextStart + 1,
             length2 |-> contextEnd - contextStart,
             body |-> BodyLines(lines, contextStart, startLine - 1, " ")
                      \o BodyLines(lines, startLine, endLine, "-")
                      \o BodyLines(lines, startLine, endLine, "+")
                      \o BodyLines(lines, endLine + 1, contextEnd - 1, " ") ] >>


-----------------------------------------------------------------------------
(***************************************************************************)
(* The patch codec (github.com/sergi/go-diff), as the server calls it.     *)
(***************************************************************************)
\* the header pattern ^@@ -(\d+),?(\d*) \+(\d+),?(\d*) @@$ takes digits only
HeaderMatches(hunk) ==
    /\ hunk.start1 >= 0
    /\ hunk.length1 >= 0
    /\ hunk.start2 >= 0
    /\ hunk.length2 >= 0

DiffOp(sign) ==
    CASE sign = "-" -> "delete"
      [] sign = "+" -> "insert"
      [] OTHER -> "equal"

\* one parsed hunk: a start is made 0-based unless its length is written "0"
ParseHunk(hunk) ==
    [ Start1 |-> IF hunk.length1 = 0 THEN hunk.start1 ELSE hunk.start1 - 1,
      Length1 |-> hunk.length1,
      Start2 |-> IF hunk.length2 = 0 THEN hunk.start2 ELSE hunk.start2 - 1,
      Length2 |-> hunk.length2,
      diffs |-> [k \in 1..Len(hunk.body) |->
                    [op |-> DiffOp(hunk.body[k].sign), text |-> hunk.body[k].text]] ]

\* dmp.PatchFromText: no patches for the empty text, an error for a hunk
\* whose header is not of the expected form
PatchFromText(patchText) ==
    IF \E i \in 1..Len(patchText) : ~HeaderMatches(patchText[i])
    THEN [err |-> TRUE, patches |-> <<>>]
    ELSE [err |-> FALSE, patches |-> [i \in 1..Len(patchText) |-> ParseHunk(patchText[i])]]

\* the old side of a hunk: its context and removed lines
IsOldSide(diff) == diff.op # "insert"

DiffText1(diffs) ==
    LET old == SelectSeq(diffs, IsOldSide)
    IN  [k \in 1..Len(old) |-> old[k].text]

\* the 0-based lines of the text at which the block of lines is found
MatchLocs(lines, block) ==
    {loc \in 0..(Len(lines) - Len(block)) :
        \A k \in 1..Len(block) : lines[loc + k] = block[k]}

\* dmp.PatchApply, the flags it returns: one per patch, TRUE when the old
\* side of the hunk is found in the text
PatchApply(patches, lines) ==
    [i \in 1..Len(patches) |-> MatchLocs(lines, DiffText1(patches[i].diffs)) # {}]

-----------------------------------------------------------------------------
(***************************************************************************)
(* applyPatchAndGetPositions                                               *)
(***************************************************************************)
NoRange == [start |-> ToUint32(0), end |-> ToUint32(0)]

RangeOfPatch(patch) ==
    [ start |-> ToUint32(patch.Start1 + contextBefore),
      end |-> ToUint32(patch.Start1 + patch.Length1 - contextAfter) ]

applyPatchAndGetPositions(originalText, patchText) ==
    LET parsed == PatchFromText(patchText)
        results == PatchApply(parsed.patches, originalText)
    IN  IF parsed.err THEN [err |-> TRUE, range |-> NoRange]
        ELSE IF Len(results) = 0 THEN [err |-> TRUE, range |-> NoRange]
        ELSE [err |-> FALSE, range |-> RangeOfPatch(parsed.patches[1])]

-----------------------------------------------------------------------------
(***************************************************************************)
(* The version control queries.                                            *)
(***************************************************************************)
AllCommits == {CommitIds[i] : i \in 1..Len(CommitIds)}

\* the commits reachable from commit c, c included
RECURSIVE Ancestors(_)
Ancestors(c) == IF c = NoCommit THEN {} ELSE {c} \cup Ancestors(parent[c])

\* git rev-parse HEAD
revParseHead == tips[current]

\* the branches "git branch --contains commit" lists
BranchesContaining(commit) ==
    {b \in Branches : commit \in Ancestors(tips[b])}

\* isCommitInCurrentBranch: the command fails outside a repository (fault:
\* any other failure of the command); it succeeds with the list of the
\* branches that contain the commit, the checked-out one starred
isCommitInCurrentBranch(commit, fault) ==
    IF ~repo \/ fault
    THEN [err |-> TRUE, present |-> FALSE, output |-> {}, star |-> NoCommit]
    ELSE [ err |-> FALSE,
           present |-> BranchesContaining(commit) # {},
           output |-> BranchesContaining(commit),
           star |-> current ]

\* getCommentFilePath: under comments/ of the repository when there is
\* one, next to the source file otherwise
getCommentFilePath == IF repo THEN "comments/<rel>.json" ELSE "<abs>.json"

CommentPaths == {"comments/<rel>.json", "<abs>.json"}

\* a comment file whose bytes are not a JSON document: the empty file that
\* os.WriteFile leaves between its open with O_TRUNC and its write, and a
\* file damaged from outside the server
Truncated == [exists |-> TRUE, bytes |-> "truncated"]
Damaged == [exists |-> TRUE, bytes |-> "damaged"]

\* json.Unmarshal(data, &commentFile) returns no error
Parses(data) == "Patches" \in DOMAIN data

\* the load with an unparseable file taken for an empty comment file
loadCommentFileLenient ==
    LET data == store[getCommentFilePath]
    IN  [ err |-> ~data.exists,
          data |-> IF data.exists /\ ~Parses(data)
                   THEN [exists |-> TRUE, Commit |-> NoCommit, Patches |-> <<>>]
                   ELSE data ]

\* loadCommentFile: os.ReadFile and json.Unmarshal of the comment file
loadCommentFile ==
    LET data == store[getCommentFilePath]
    IN  [err |-> ~data.exists \/ ~Parses(data), data |-> data]

-----------------------------------------------------------------------------
(***************************************************************************)
(* publishDiagnostics                                                      *)
(***************************************************************************)
NotQueried == [err |-> FALSE, present |-> FALSE, output |-> {}, star |-> NoCommit]

\* the loop over the patches of the comment file: position and error of each
Located(text, patches) ==
    [i \in 1..Len(patches) |-> applyPatchAndGetPositions(text, patches[i].Patch)]

\* the loop with a patch that cannot be applied ending it
RECURSIVE DiagnosticsUntilError(_, _)
DiagnosticsUntilError(patches, located) ==
    IF Len(patches) = 0 \/ Head(located).err THEN <<>>
    ELSE << [ range |-> Head(located).range,
              severity |-> "hint",
              message |-> Head(patches).Message ] >>
         \o DiagnosticsUntilError(Tail(patches), Tail(located))

\* the loop with each diagnostic put before those of the earlier patches
RECURSIVE DiagnosticsNewestFirst(_, _)
DiagnosticsNewestFirst(patches, located) ==
    IF Len(patches) = 0 THEN <<>>
    ELSE LET rest == DiagnosticsNewestFirst(Tail(patches), Tail(located))
         IN  IF Head(located).err THEN rest
             ELSE rest \o << [ range |-> Head(located).range,
                               severity |-> "hint",
                               message |-> Head(patches).Message ] >>

\* the diagnostics the loop appends, in the order of the patches
RECURSIVE Diagnostics(_, _)
Diagnostics(patches, located) ==
    IF Len(patches) = 0 THEN <<>>
    ELSE LET rest == Diagnostics(Tail(patches), Tail(located))
         IN  IF Head(located).err THEN rest
             ELSE << [ range |-> Head(located).range,
                       severity |-> "hint",
                       message |-> Head(patches).Message ] >> \o rest

\* the commit of the comment file checked even when it is empty
CommitAlwaysChecked(commentFile) == TRUE

\* the commit of the comment file is checked unless it is empty
CommitIsChecked(commentFile) == commentFile.Commit # NoCommit

\* the run with the gate applied to the first patch alone: when the commit
\* of the file is on no branch, the later patches are still published
PassFromGatingFirst(text, loaded, fault) ==
    LET file == loaded.data
        queried == ~loaded.err /\ CommitIsChecked(file)
        gate == IF queried
                THEN isCommitInCurrentBranch(file.Commit, fault)
                ELSE NotQueried
        located == IF ~loaded.err THEN Located(text, file.Patches) ELSE <<>>
        outcome ==
            CASE loaded.err -> "no comments"
              [] queried /\ gate.err -> "vcs error"
              [] OTHER -> "published"
    IN  [ text |-> text,
          file |-> file,
          queried |-> queried,
          gate |-> gate,
          outcome |-> outcome,
          located |-> IF outcome = "published" THEN located ELSE <<>>,
          diagnostics |-> IF outcome # "published" THEN <<>>
                          ELSE IF queried /\ ~gate.present
                          THEN Diagnostics(Tail(file.Patches), Tail(located))
                          ELSE Diagnostics(file.Patches, located) ]

\* one run of publishDiagnostics: what it read, how far it got, what it sent
PassFrom(text, loaded, fault) ==
    LET file == loaded.data
        queried == ~loaded.err /\ CommitIsChecked(file)
        gate == IF queried
                THEN isCommitInCurrentBranch(file.Commit, fault)
                ELSE NotQueried
        located == IF ~loaded.err THEN Located(text, file.Patches) ELSE <<>>
        outcome ==
            CASE loaded.err -> "no comments"
              [] queried /\ gate.err -> "vcs error"
              [] queried /\ ~gate.present -> "not on branch"
              [] OTHER -> "published"
    IN  [ text |-> text,
          file |-> file,
          queried |-> queried,
          gate |-> gate,
          outcome |-> outcome,
          located |-> IF outcome = "published" THEN located ELSE <<>>,
          diagnostics |-> IF outcome = "published"
                          THEN Diagnostics(file.Patches, located) ELSE <<>> ]

\* the run that reads the source file and the comment file now
PassOf(fault) == PassFrom(content, loadCommentFile, fault)

\* the end of publishDiagnostics: the notification is sent only when the
\* run got to the loop
\* the run found the comment file and returned before its loop
LeavesUnreported(run) == run.outcome \in {"vcs error", "not on branch"}

\* the end of a run that keeps unreported the anchors once left unreported
PublishUnlessStale(run) ==
    /\ pass' = IF stale
               THEN [run EXCEPT !.outcome = "not on branch", !.located = <<>>,
                                !.diagnostics = <<>>]
               ELSE run
    /\ markers' = IF run.outcome = "published" /\ ~stale THEN run.diagnostics ELSE markers
    /\ stale' = (stale \/ LeavesUnreported(run))

Publish(run) ==
    /\ pass' = run
    /\ markers' = IF run.outcome = "published" THEN run.diagnostics ELSE markers
    /\ stale' = (stale \/ LeavesUnreported(run))

publishDiagnostics(fault) == Publish(PassOf(fault))

-----------------------------------------------------------------------------
(***************************************************************************)
(* The state after the server has started.                                 *)
(***************************************************************************)
Idle == [pc |-> "idle"]

NoPass ==
    [ text |-> <<>>, file |-> NoFile, queried |-> FALSE,
      gate |-> NotQueried, outcome |-> "none", located |-> <<>>,
      diagnostics |-> <<>> ]

NoRepoParent == [c \in AllCommits |-> NoCommit]

\* reply(ctx, nil, err): the error of a reply, Nil for the reply of success
Nil == "nil"

NoReply == [sent |-> FALSE, error |-> Nil]

Reply(err) == [sent |-> TRUE, error |-> err]

Init ==
    /\ content = [i \in 1..NumLines |-> i]
    /\ buffer = content
    /\ edits = 0
    /\ repo \in BOOLEAN
    /\ commits = IF repo THEN 1 ELSE 0
    /\ parent = NoRepoParent
    /\ tips = [b \in Branches |-> IF repo /\ b = "main" THEN CommitIds[1] ELSE NoCommit]
    /\ current = "main"
    /\ store = [f \in CommentPaths |-> NoFile]
    /\ proc = [p \in Procs |-> Idle]
    /\ adds = 0
    /\ pass = NoPass
    /\ markers = <<>>
    /\ stale = FALSE
    /\ reply = NoReply

-----------------------------------------------------------------------------
(***************************************************************************)
(* The user: edits of the working copy and git commands.                   *)
(***************************************************************************)
gitVars == <<repo, commits, parent, tips, current>>
serverVars == <<store, proc, adds, pass, markers, stale, reply>>

\* the content of the lines typed by the next edit
NewLine == NumLines + edits + 1

InsertPoints == {0, 7, Len(content)}

EditInsert(pos, n) ==
    /\ edits < MaxEdits
    /\ content' = InsertAt(content, pos, n, NewLine)
    /\ buffer' = content'
    /\ edits' = edits + 1
    /\ UNCHANGED <<gitVars, serverVars>>

EditReplaceAll ==
    /\ edits < MaxEdits
    /\ content' = Repeat(NewLine, Len(content))
    /\ buffer' = content'
    /\ edits' = edits + 1
    /\ UNCHANGED <<gitVars, serverVars>>

\* the lines a short file keeps: fewer than contextBefore + contextAfter
ShortSizes == {3}

\* all but the first n lines are deleted, and the file is saved
EditKeepFirst(n) ==
    /\ edits < MaxEdits
    /\ n < Len(content)
    /\ content' = SubSeq(content, 1, n)
    /\ buffer' = content'
    /\ edits' = edits + 1
    /\ UNCHANGED <<gitVars, serverVars>>

\* lines typed in the editor and not saved
TypeInsert(pos, n) ==
    /\ edits < MaxEdits
    /\ buffer' = InsertAt(buffer, pos, n, NewLine)
    /\ edits' = edits + 1
    /\ UNCHANGED <<content, gitVars, serverVars>>

\* the editor saves its text
SaveBuffer ==
    /\ buffer # content
    /\ content' = buffer
    /\ UNCHANGED <<buffer, edits, gitVars, serverVars>>

\* git init and a first commit
GitInit ==
    /\ ~repo
    /\ repo' = TRUE
    /\ commits' = 1
    /\ tips' = [tips EXCEPT !["main"] = CommitIds[1]]
    /\ UNCHANGED <<parent, current, content, buffer, edits, serverVars>>

GitCommit ==
    /\ repo
    /\ commits < MaxCommits
    /\ commits' = commits + 1
    /\ parent' = [parent EXCEPT ![CommitIds[commits + 1]] = tips[current]]
    /\ tips' = [tips EXCEPT ![current] = CommitIds[commits + 1]]
    /\ UNCHANGED <<repo, current, content, buffer, edits, serverVars>>

\* git checkout b, or git checkout -b b when there is no such branch
GitCheckout(b) ==
    /\ repo
    /\ b # current
    /\ current' = b
    /\ tips' = IF tips[b] = NoCommit THEN [tips EXCEPT ![b] = tips[current]] ELSE tips
    /\ UNCHANGED <<repo, commits, parent, content, buffer, edits, serverVars>>

\* git reset --hard HEAD~1: the tip commit leaves the checked-out branch
GitReset ==
    /\ repo
    /\ parent[tips[current]] # NoCommit
    /\ tips' = [tips EXCEPT ![current] = parent[tips[current]]]
    /\ UNCHANGED <<repo, commits, parent, current, content, buffer, edits, serverVars>>

-----------------------------------------------------------------------------
(***************************************************************************)
(* The request handlers.                                                   *)
(***************************************************************************)
\* textDocument/didOpen
DidOpen(p, fault) ==
    /\ proc[p].pc = "idle"
    /\ publishDiagnostics(fault)
    /\ UNCHANGED <<content, buffer, edits, gitVars, store, proc, adds, reply>>

\* the comment file with the patches that cannot be applied to the text
\* dropped
RECURSIVE OnlyApplying(_, _)
OnlyApplying(text, patches) ==
    IF Len(patches) = 0 THEN <<>>
    ELSE (IF applyPatchAndGetPositions(text, Head(patches).Patch).err
          THEN <<>> ELSE <<Head(patches)>>) \o OnlyApplying(text, Tail(patches))

\* textDocument/didChange with a run that saves the comment file again,
\* with the patches it could apply
DidChangeRewriting(p, fault) ==
    /\ proc[p].pc = "idle"
    /\ publishDiagnostics(fault)
    /\ store' = IF loadCommentFile.err THEN store
                ELSE [store EXCEPT ![getCommentFilePath].Patches =
                         OnlyApplying(content, store[getCommentFilePath].Patches)]
    /\ UNCHANGED <<content, buffer, edits, gitVars, proc, adds, reply>>

\* textDocument/didChange
DidChange(p, fault) ==
    /\ proc[p].pc = "idle"
    /\ publishDiagnostics(fault)
    /\ UNCHANGED <<content, buffer, edits, gitVars, store, proc, adds, reply>>

\* workspace/executeCommand comment.add, up to the patch text:
\* generateAndSaveCommentPatch reads the source file, resolves the comment
\* file path and the commit hash and builds the patch text
Capture(p, rng, msg) ==
    /\ proc[p].pc = "idle"
    /\ adds < MaxAdds
    /\ adds' = adds + 1
    /\ proc' = [proc EXCEPT ![p] =
                  [ pc |-> "load",
                    rng |-> rng,
                    contentBody |-> msg,
                    commentFilePath |-> getCommentFilePath,
                    commitHash |-> IF repo THEN revParseHead ELSE NoCommit,
                    patchText |-> BuildPatchText(content, rng) ]]
    /\ UNCHANGED <<content, buffer, edits, gitVars, store, pass, markers, stale, reply>>

\* an empty comment file
NewCommentFile(commitHash) ==
    [exists |-> TRUE, Commit |-> commitHash, Patches |-> <<>>]

\* the comment file on disk restamped with the commit hash of the call
RestampedCommentFile(onDisk, commitHash) ==
    IF ~onDisk.exists THEN NewCommentFile(commitHash)
    ELSE [onDisk EXCEPT !.Commit = commitHash]

\* the comment file the call works on: a new one when there is none on disk
LoadedCommentFile(onDisk, commitHash) ==
    IF ~onDisk.exists THEN NewCommentFile(commitHash) ELSE onDisk

\* the comment file with the new patch appended
AppendPatch(commentFile, newPatch) ==
    [commentFile EXCEPT !.Patches = Append(commentFile.Patches, newPatch)]

\* generateAndSaveCommentPatch, load or create the comment file and append
LoadOrCreate(p) ==
    /\ proc[p].pc = "load"
    /\ store[proc[p].commentFilePath].exists => Parses(store[proc[p].commentFilePath])
    /\ LET commentFile == LoadedCommentFile(store[proc[p].commentFilePath],
                                            proc[p].commitHash)
           newPatch == [Message |-> proc[p].contentBody, Patch |-> proc[p].patchText]
       IN  proc' = [proc EXCEPT ![p] =
                      [ pc |-> "save",
                        rng |-> proc[p].rng,
                        contentBody |-> proc[p].contentBody,
                        commentFilePath |-> proc[p].commentFilePath,
                        commitHash |-> proc[p].commitHash,
                        commentFile |-> AppendPatch(commentFile, newPatch) ]]
    /\ UNCHANGED <<content, buffer, edits, gitVars, store, adds, pass, markers, stale, reply>>

\* the comment files after the write
Written(commentFilePath, commentFile) ==
    [store EXCEPT ![commentFilePath] = commentFile]

\* generateAndSaveCommentPatch, os.WriteFile of the comment file
Save(p) ==
    /\ proc[p].pc = "save"
    /\ store' = Written(proc[p].commentFilePath, proc[p].commentFile)
    /\ proc' = [proc EXCEPT ![p] =
                  [ pc |-> "refresh",
                    rng |-> proc[p].rng,
                    contentBody |-> proc[p].contentBody ]]
    /\ UNCHANGED <<content, buffer, edits, gitVars, adds, pass, markers, stale, reply>>

\* addComment, the refresh after the patch is saved
RefreshAfterAdd(p, fault) ==
    /\ proc[p].pc = "refresh"
    /\ publishDiagnostics(fault)
    /\ proc' = [proc EXCEPT ![p] =
                  [ pc |-> "reply",
                    rng |-> proc[p].rng,
                    contentBody |-> proc[p].contentBody ]]
    /\ UNCHANGED <<content, buffer, edits, gitVars, store, adds, reply>>

\* handle, the second refresh, and the reply to the command
RefreshAndReply(p, fault) ==
    /\ proc[p].pc = "reply"
    /\ publishDiagnostics(fault)
    /\ proc' = [proc EXCEPT ![p] = Idle]
    /\ reply' = Reply(Nil)
    /\ UNCHANGED <<content, buffer, edits, gitVars, store, adds>>

-----------------------------------------------------------------------------
(***************************************************************************)
(* workspace/executeCommand: the arguments of comment.add.  An argument is *)
(* a decoded JSON value: its kind and what it holds.                        *)
(***************************************************************************)
Str(v) == [kind |-> "string", value |-> v]
Obj(v) == [kind |-> "object", value |-> v]
Num(v) == [kind |-> "number", value |-> v]
Arr(v) == [kind |-> "array", value |-> v]

Uri == "file:///src"

\* the arguments the client sends for a request
ArgumentsOf(r) == <<Str(Uri), Obj(r.rng), Str(r.msg)>>

\* arguments of the wrong count or type: the two arguments of the command
\* of the code action with no message, one argument too many, a uri that is
\* not a string, a range that is not an object, a message that is not a
\* string
Malformed ==
    { <<Str(Uri), Obj(Inside)>>,
      <<Str(Uri), Obj(Inside), Str("why"), Str("why")>>,
      <<Num("1"), Obj(Inside), Str("why")>>,
      <<Str(Uri), Arr(Inside), Str("why")>>,
      <<Str(Uri), Obj(Inside), Num("42")>> }

\* the checks of the arguments with the check of the message left out
ArgumentsErrorMessageUnchecked(args) ==
    IF Len(args) # 3 THEN "invalid arguments count"
    ELSE IF args[1].kind # "string" THEN "invalid argument type for URI"
    ELSE IF args[2].kind # "object" THEN "invalid argument type for range"
    ELSE Nil

\* handle, the checks of the arguments: the error of the first that fails
ArgumentsError(args) ==
    IF Len(args) # 3 THEN "invalid arguments count"
    ELSE IF args[1].kind # "string" THEN "invalid argument type for URI"
    ELSE IF args[2].kind # "object" THEN "invalid argument type for range"
    ELSE IF args[3].kind # "string" THEN "invalid argument type for contentBody"
    ELSE Nil

\* the handler returns reply(ctx, nil, err) and nothing else is done
ReplyError(p, err) ==
    /\ reply' = Reply(err)
    /\ proc' = [proc EXCEPT ![p] = Idle]
    /\ UNCHANGED <<content, buffer, edits, gitVars, store, adds, pass, markers, stale>>

\* workspace/executeCommand comment.add with any arguments
CommentAdd(p, args) ==
    IF ArgumentsError(args) # Nil
    THEN proc[p].pc = "idle" /\ ReplyError(p, ArgumentsError(args))
    ELSE Capture(p, args[2].value, args[3].value)

\* generateAndSaveCommentPatch fails before the patch text: the source
\* file cannot be read, or git rev-parse HEAD fails in a repository
CaptureErrors ==
    {"error while reading file"} \cup (IF repo THEN {"erreur lors de la recuperation du commit courant"} ELSE {})

CaptureFails(p, err) ==
    /\ proc[p].pc = "idle"
    /\ err \in CaptureErrors
    /\ ReplyError(p, err)

\* generateAndSaveCommentPatch, the comment file is there and cannot be
\* read (readFault) or parsed
LoadFails(p, readFault) ==
    /\ proc[p].pc = "load"
    /\ LET data == store[proc[p].commentFilePath]
       IN  /\ data.exists
           /\ readFault \/ ~Parses(data)
           /\ ReplyError(p, IF readFault THEN "error while reading comment file"
                                         ELSE "error while parsing comment file")

\* generateAndSaveCommentPatch, os.MkdirAll or the open of os.WriteFile fails
SaveFails(p) ==
    /\ proc[p].pc = "save"
    /\ ReplyError(p, "error while writing comment file")

\* os.WriteFile, the open of the comment file with O_TRUNC
OpenTruncate(p) ==
    /\ proc[p].pc = "save"
    /\ store' = Written(proc[p].commentFilePath, Truncated)
    /\ proc' = [proc EXCEPT ![p] =
                  [ pc |-> "write",
                    rng |-> proc[p].rng,
                    contentBody |-> proc[p].contentBody,
                    commentFilePath |-> proc[p].commentFilePath,
                    commentFile |-> proc[p].commentFile ]]
    /\ UNCHANGED <<content, buffer, edits, gitVars, adds, pass, markers, stale, reply>>

\* os.WriteFile, the write of the data and the close: all of the data is
\* written (ok), or the write fails and the call returns the error
WriteData(p, ok) ==
    /\ proc[p].pc = "write"
    /\ IF ok
       THEN /\ store' = Written(proc[p].commentFilePath, proc[p].commentFile)
            /\ proc' = [proc EXCEPT ![p] =
                          [ pc |-> "refresh",
                            rng |-> proc[p].rng,
                            contentBody |-> proc[p].contentBody ]]
            /\ UNCHANGED <<content, buffer, edits, gitVars, adds, pass, markers, stale, reply>>
       ELSE ReplyError(p, "error while writing comment file")

\* the comment file of the source file is damaged from outside the server
Damage ==
    /\ store[getCommentFilePath].exists
    /\ Parses(store[getCommentFilePath])
    /\ store' = Written(getCommentFilePath, Damaged)
    /\ UNCHANGED <<content, buffer, edits, gitVars, proc, adds, pass, markers, stale, reply>>

\* textDocument/didOpen, publishDiagnostics up to the start of
\* git branch --contains: cmd.Output() waits for the command to end
QueryStart(p) ==
    /\ proc[p].pc = "idle"
    /\ ~loadCommentFile.err
    /\ CommitIsChecked(loadCommentFile.data)
    /\ proc' = [proc EXCEPT ![p] =
                  [pc |-> "query", text |-> content, loaded |-> loadCommentFile]]
    /\ UNCHANGED <<content, buffer, edits, gitVars, store, adds, pass, markers, stale, reply>>

\* the command ends and publishDiagnostics goes on to its end
QueryAnswer(p, fault) ==
    /\ proc[p].pc = "query"
    /\ Publish(PassFrom(proc[p].text, proc[p].loaded, fault))
    /\ proc' = [proc EXCEPT ![p] = Idle]
    /\ UNCHANGED <<content, buffer, edits, gitVars, store, adds, reply>>

-----------------------------------------------------------------------------
Next ==
    \/ \E pos \in InsertPoints, n \in InsertSizes : EditInsert(pos, n)
    \/ EditReplaceAll
    \/ GitInit
    \/ GitCommit
    \/ \E b \in Branches : GitCheckout(b)
    \/ GitReset
    \/ \E p \in Procs, fault \in BOOLEAN : DidOpen(p, fault)
    \/ \E p \in Procs, fault \in BOOLEAN : DidChange(p, fault)
    \/ \E p \in Procs, rng \in Ranges, msg \in Messages : Capture(p, rng, msg)
    \/ \E p \in Procs : LoadOrCreate(p)
    \/ \E p \in Procs : Save(p)
    \/ \E p \in Procs, fault \in BOOLEAN : RefreshAfterAdd(p, fault)
    \/ \E p \in Procs, fault \in BOOLEAN : RefreshAndReply(p, fault)
    \/ \E p \in Procs, args \in Malformed : CommentAdd(p, args)
    \/ \E p \in Procs, err \in CaptureErrors : CaptureFails(p, err)
    \/ \E p \in Procs, readFault \in BOOLEAN : LoadFails(p, readFault)
    \/ \E p \in Procs : SaveFails(p)
    \/ \E p \in Procs : OpenTruncate(p)
    \/ \E p \in Procs, ok \in BOOLEAN : WriteData(p, ok)
    \/ Damage
    \/ \E p \in Procs : QueryStart(p)
    \/ \E p \in Procs, fault \in BOOLEAN : QueryAnswer(p, fault)
    \/ \E pos \in InsertPoints, n \in InsertSizes : TypeInsert(pos, n)
    \/ SaveBuffer
    \/ \E n \in ShortSizes : EditKeepFirst(n)

Spec == Init /\ [][Next]_vars

-----------------------------------------------------------------------------
(***************************************************************************)
(* Scenarios: the server with one part of its environment at work.         *)
(***************************************************************************)
\* one handler at a time, the working copy edited, the repository at rest
NextRecover ==
    \/ \E pos \in InsertPoints, n \in InsertSizes : EditInsert(pos, n)
    \/ EditReplaceAll
    \/ DidOpen("p1", FALSE)
    \/ DidChange("p1", FALSE)
    \/ \E r \in Requests : Capture("p1", r.rng, r.msg)
    \/ LoadOrCreate("p1")
    \/ Save("p1")
    \/ RefreshAfterAdd("p1", FALSE)
    \/ RefreshAndReply("p1", FALSE)

SpecRecover == Init /\ [][NextRecover]_vars

\* one handler at a time, the repository at work, the working copy at rest
NextGate ==
    \/ GitInit
    \/ GitCommit
    \/ \E b \in Branches : GitCheckout(b)
    \/ GitReset
    \/ \E fault \in BOOLEAN : DidOpen("p1", fault)
    \/ \E fault \in BOOLEAN : DidChange("p1", fault)
    \/ \E r \in FewRequests : Capture("p1", r.rng, r.msg)
    \/ LoadOrCreate("p1")
    \/ Save("p1")
    \/ \E fault \in BOOLEAN : RefreshAfterAdd("p1", fault)
    \/ \E fault \in BOOLEAN : RefreshAndReply("p1", fault)

SpecGate == Init /\ [][NextGate]_vars

\* two handlers at a time, commits made meanwhile
NextRace ==
    \/ GitCommit
    \/ \E p \in Procs, fault \in BOOLEAN : DidOpen(p, fault)
    \/ \E p \in Procs, r \in FewRequests : Capture(p, r.rng, r.msg)
    \/ \E p \in Procs : LoadOrCreate(p)
    \/ \E p \in Procs : Save(p)
    \/ \E p \in Procs, fault \in BOOLEAN : RefreshAfterAdd(p, fault)
    \/ \E p \in Procs, fault \in BOOLEAN : RefreshAndReply(p, fault)

SpecRace == Init /\ [][NextRace]_vars

\* the requests of the scenario of failures: one of them has an empty message
FaultRequests == {Request(Inside, "fix this"), Request(AtStart, "")}

\* one handler adds comments, with any arguments, every step of it able to
\* fail and its write in two steps, while another handler opens the file
\* and the comment file can be damaged
NextFaults ==
    \/ \E r \in FaultRequests : CommentAdd("p1", ArgumentsOf(r))
    \/ \E args \in Malformed : CommentAdd("p1", args)
    \/ \E err \in CaptureErrors : CaptureFails("p1", err)
    \/ LoadOrCreate("p1")
    \/ \E readFault \in BOOLEAN : LoadFails("p1", readFault)
    \/ SaveFails("p1")
    \/ OpenTruncate("p1")
    \/ \E ok \in BOOLEAN : WriteData("p1", ok)
    \/ RefreshAfterAdd("p1", FALSE)
    \/ RefreshAndReply("p1", FALSE)
    \/ DidOpen("p2", FALSE)
    \/ Damage

SpecFaults == Init /\ [][NextFaults]_vars

\* one handler adds comments while another opens the file and waits for
\* git branch --contains to end
NextHang ==
    \/ GitCommit
    \/ \E b \in Branches : GitCheckout(b)
    \/ \E r \in FewRequests : Capture("p1", r.rng, r.msg)
    \/ LoadOrCreate("p1")
    \/ Save("p1")
    \/ RefreshAfterAdd("p1", FALSE)
    \/ RefreshAndReply("p1", FALSE)
    \/ QueryStart("p2")
    \/ \E fault \in BOOLEAN : QueryAnswer("p2", fault)

\* the steps of the server itself are taken when they can be: a handler that
\* has a request goes on to its end.  Nothing makes the git command end.
ServerSteps ==
    \/ LoadOrCreate("p1")
    \/ Save("p1")
    \/ RefreshAfterAdd("p1", FALSE)
    \/ RefreshAndReply("p1", FALSE)

SpecHang == Init /\ [][NextHang]_vars /\ WF_vars(ServerSteps)

\* one handler at a time, lines typed in the editor, saved or not, each
\* change notified with textDocument/didChange
NextTyping ==
    \/ \E pos \in InsertPoints, n \in InsertSizes : TypeInsert(pos, n)
    \/ SaveBuffer
    \/ DidChange("p1", FALSE)
    \/ \E r \in Requests : Capture("p1", r.rng, r.msg)
    \/ LoadOrCreate("p1")
    \/ Save("p1")
    \/ RefreshAfterAdd("p1", FALSE)
    \/ RefreshAndReply("p1", FALSE)

SpecTyping == Init /\ [][NextTyping]_vars

\* one handler at a time, the file cut down to a few lines
NextShort ==
    \/ \E n \in ShortSizes : EditKeepFirst(n)
    \/ DidOpen("p1", FALSE)
    \/ \E r \in Requests : Capture("p1", r.rng, r.msg)
    \/ LoadOrCreate("p1")
    \/ Save("p1")
    \/ RefreshAfterAdd("p1", FALSE)
    \/ RefreshAndReply("p1", FALSE)

SpecShort == Init /\ [][NextShort]_vars

-----------------------------------------------------------------------------
(***************************************************************************)
(* Properties.                                                             *)
(***************************************************************************)
\* the comment file of the source file, as getCommentFilePath resolves it
AnchorFile == store[getCommentFilePath]

\* the number of patches of a comment file
AnchorCount(commentFile) ==
    IF commentFile.exists /\ Parses(commentFile) THEN Len(commentFile.Patches) ELSE 0

\* generateAndSaveCommentPatch is running in handler p
Creating(p) == proc[p].pc \in {"load", "save"}

\* C1 - No lost updates: once every comment.add received so far has saved
\* its patch (two of them concurrently or not), the comment file holds one
\* patch for each of them: its count is the initial count, 0, plus the
\* number of calls.
C1_NoLostUpdates ==
    (\A p \in Procs : ~Creating(p)) => AnchorCount(AnchorFile) = adds

\* the hunk of patch i of the comment file a pass loaded (its patch text
\* parsed), and the block of lines that is its context window
HunkOf(run, i) == PatchFromText(run.file.Patches[i].Patch).patches[1]

WindowOf(run, i) == DiffText1(HunkOf(run, i).diffs)

\* the patches of a pass that were given a range
Reported(run) == {i \in 1..Len(run.located) : ~run.located[i].err}

\* u + n in uint32, n a small natural
Uint32Plus(u, n) ==
    [hi |-> (u.hi + ((u.lo + n) \div Half)) % Half, lo |-> (u.lo + n) % Half]

\* a range moved down by n lines
Shifted(range, n) ==
    [start |-> Uint32Plus(range.start, n), end |-> Uint32Plus(range.end, n)]

\* the lines of a text
LinesIn(text) == {text[k] : k \in 1..Len(text)}

\* C2 - Drift tolerance: from one publishing pass to the next over the same
\* comment file, when the text has n lines inserted before the context
\* window of an anchor, the anchor's reported range is moved down by n
\* lines, and when the lines are inserted after the window the range is
\* the same.
C2_DriftTolerance ==
    [][ ( /\ pass.outcome = "published"
          /\ pass'.outcome = "published"
          /\ pass'.file = pass.file )
        => \A i \in Reported(pass) \cap Reported(pass') :
           \A at \in MatchLocs(pass.text, WindowOf(pass, i)) :
           \A pos \in 0..Len(pass.text), n \in InsertSizes, x \in LinesIn(pass'.text) :
              ( /\ WindowOf(pass, i) # <<>>
                /\ pass'.text = InsertAt(pass.text, pos, n, x) )
              => /\ pos <= at
                    => pass'.located[i].range = Shifted(pass.located[i].range, n)
                 /\ pos >= at + Len(WindowOf(pass, i))
                    => pass'.located[i].range = pass.located[i].range
      ]_vars

\* the second half of C2 alone: lines inserted after the window
InsertAfterKeepsRange ==
    [][ ( /\ pass.outcome = "published"
          /\ pass'.outcome = "published"
          /\ pass'.file = pass.file )
        => \A i \in Reported(pass) \cap Reported(pass') :
           \A at \in MatchLocs(pass.text, WindowOf(pass, i)) :
           \A pos \in 0..Len(pass.text), n \in InsertSizes, x \in LinesIn(pass'.text) :
              ( /\ WindowOf(pass, i) # <<>>
                /\ pass'.text = InsertAt(pass.text, pos, n, x)
                /\ pos >= at + Len(WindowOf(pass, i)) )
              => pass'.located[i].range = pass.located[i].range
      ]_vars

\* a requested range that selects lines of the text
Selects(rng, text) == rng.start <= rng.end /\ rng.end < Len(text)

\* the range of a request, as a pair of uint32 line numbers
RangeOfRequest(rng) == [start |-> ToUint32(rng.start), end |-> ToUint32(rng.end)]

\* handler p has saved its patch and run the refresh of addComment
Refreshed(p) == proc[p].pc = "reply"

\* C3 - Round-trip: when a comment.add on a range of lines of the file has
\* saved its patch and refreshed, the file not edited, the pass has
\* published and reports the new anchor, the last of the comment file, at
\* exactly the requested range.
C3_RoundTrip ==
    \A p \in Procs :
        (Refreshed(p) /\ edits = 0 /\ Selects(proc[p].rng, content))
        => /\ pass.outcome = "published"
           /\ Len(pass.located) > 0
           /\ ~pass.located[Len(pass.located)].err
           /\ pass.located[Len(pass.located)].range = RangeOfRequest(proc[p].rng)

\* C5 - Stale reporting: an anchor whose hunk the codec reports unapplied
\* on the text of a pass is not given a range by that pass, so that a pass
\* over a text where no hunk applies publishes an empty list.
C5_StaleReporting ==
    pass.outcome = "published"
    => \A i \in Reported(pass) :
          \A k \in 1..Len(PatchFromText(pass.file.Patches[i].Patch).patches) :
             PatchApply(PatchFromText(pass.file.Patches[i].Patch).patches, pass.text)[k]

\* the diagnostic the loop makes of patch i
DiagnosticOf(run, i) ==
    [ range |-> applyPatchAndGetPositions(run.text, run.file.Patches[i].Patch).range,
      severity |-> "hint",
      message |-> run.file.Patches[i].Message ]

\* patch i of the comment file can be applied to the text of the pass
Applies(run, i) == ~applyPatchAndGetPositions(run.text, run.file.Patches[i].Patch).err

Loaded(run) == run.outcome # "none" /\ run.file.exists

\* every patch of the comment file that can be applied has its diagnostic
\* among those the pass sent
AllLocatableReported(run) ==
    /\ run.outcome = "published"
    /\ \A i \in 1..Len(run.file.Patches) :
          Applies(run, i)
          => \E d \in 1..Len(run.diagnostics) : run.diagnostics[d] = DiagnosticOf(run, i)

\* C4 - Gating: a pass that reports anchors of a comment file with a
\* non-empty commit has found that commit on the checked-out branch: the
\* starred branch is among the branches that contain the commit.
C4_Gating ==
    ( /\ pass.outcome = "published"
      /\ pass.file.Commit # NoCommit
      /\ pass.diagnostics # <<>> )
    => pass.gate.star \in pass.gate.output

C10_QueryFailureDegrades ==
    (Loaded(pass) /\ pass.queried /\ pass.gate.err) => AllLocatableReported(pass)

\* C6 - Append-only: at every step, each comment file that exists still
\* exists afterwards and the patches it held are the first patches it
\* holds afterwards, in the same order.
C6_AppendOnly ==
    [][ \A f \in CommentPaths :
           store[f].exists
           => /\ store'[f].exists
              /\ IsPrefix(store[f].Patches, store'[f].Patches) ]_vars

\* handler p writes its comment file at this step
Saves(p) == proc[p].pc = "save" /\ proc'[p].pc = "refresh"

\* handler p loads or creates its comment file at this step
Loads(p) == proc[p].pc = "load" /\ proc'[p].pc = "save"

-----------------------------------------------------------------------------
\* generateAndSaveCommentPatch returns an error in handler p at this step
ReturnsError(p) == proc[p].pc \in {"load", "save", "write"} /\ proc'[p].pc = "idle"

\* the comment file that handler p, about to write, loaded or found missing
BeforeCall(p) ==
    IF Len(proc[p].commentFile.Patches) = 1 THEN NoFile
    ELSE [ proc[p].commentFile EXCEPT
             !.Patches = SubSeq(proc[p].commentFile.Patches, 1,
                                Len(proc[p].commentFile.Patches) - 1) ]

\* C11 - Never partially persists: when a call of generateAndSaveCommentPatch
\* returns an error, the comment file is what it was before the call: the
\* failing step changes nothing, and a call that fails in its write leaves
\* the file it loaded.
C11_NeverPartiallyPersists ==
    [][ \A p \in Procs :
           ReturnsError(p)
           => store'[proc[p].commentFilePath]
                 = IF proc[p].pc = "write" THEN BeforeCall(p)
                   ELSE store[proc[p].commentFilePath] ]_vars

\* C12 - No partial read: no run of publishDiagnostics reads the comment
\* file between the open and the write of an os.WriteFile of it: the file a
\* run has read is never the truncated one.
C12_NoPartialRead == pass.outcome # "none" => pass.file # Truncated

\* the comment file holds a patch with the message
Holds(file, msg) ==
    /\ file.exists
    /\ Parses(file)
    /\ \E i \in 1..Len(file.Patches) : file.Patches[i].Message = msg

\* handler p runs the refresh of addComment at this step
Refreshes(p) == proc[p].pc = "refresh" /\ proc'[p].pc = "reply"

\* C13 - Persist happens-before recover: the run of publishDiagnostics that
\* addComment makes after generateAndSaveCommentPatch has returned with
\* success reads a comment file that holds the new anchor.
C13_PersistBeforeRecover ==
    [][ \A p \in Procs : Refreshes(p) => Holds(pass'.file, proc[p].contentBody) ]_vars

\* the comment file of the source file is there and is not a JSON document
Unparseable(data) == data.exists /\ ~Parses(data)

\* a run of publishDiagnostics ends at this step with a new result
PassStep == pass' # pass

\* handler p leaves the load of the comment file at this step
LeavesLoad(p) == proc[p].pc = "load" /\ proc'[p].pc # "load"

\* C14 - Unparseable comment file: a run of publishDiagnostics that finds
\* the comment file unparseable ends as with no comments (nothing is
\* published, no error is replied) and a comment.add that finds it
\* unparseable returns without writing: neither overwrites the file.
C14_ParseFailureDegrades ==
    [][ /\ (PassStep /\ Unparseable(store[getCommentFilePath]))
           => /\ pass'.outcome = "no comments"
              /\ pass'.diagnostics = <<>>
              /\ markers' = markers
              /\ reply' = reply \/ reply'.error = Nil
              /\ store' = store
        /\ \A p \in Procs :
              (LeavesLoad(p) /\ Unparseable(store[proc[p].commentFilePath]))
              => /\ proc'[p].pc = "idle"
                 /\ store' = store ]_vars

\* C14 witness: the comment file is damaged, a run has found it so and a
\* comment.add has been refused for it
C14_Witness ==
    /\ store[getCommentFilePath] = Damaged
    /\ pass.file = Damaged
    /\ pass.outcome = "no comments"
    /\ reply.error = "error while parsing comment file"

\* C15 - Malformed arguments: every step that handles a comment.add whose
\* arguments have the wrong count or a wrong type is answered with the
\* error of the check that fails and changes nothing else: no comment file,
\* no run of publishDiagnostics, no marker, no handler at work.
C15_MalformedRejected ==
    [][ \A p \in Procs, args \in Malformed :
           CommentAdd(p, args)
           => /\ reply'.sent
              /\ reply'.error # Nil
              /\ UNCHANGED <<store, pass, markers, proc, adds, content>> ]_vars

\* C15 witness: a comment.add with a message that is not a string has been
\* refused while the comment file holds an anchor
C15_Witness ==
    /\ reply.error = "invalid argument type for contentBody"
    /\ AnchorCount(AnchorFile) = 1
    /\ \A p \in Procs : proc[p].pc = "idle"

\* a step of textDocument/didOpen or textDocument/didChange: no handler
\* moves, the working copy and the repository are as they were
NotifiedStep == UNCHANGED <<proc, adds, content, edits, repo, commits, parent, tips, current>>

\* a step that runs publishDiagnostics: a notification handled, or one of
\* the two refreshes of a comment.add
RecoveryStep ==
    \/ NotifiedStep
    \/ \E p \in Procs : proc[p].pc \in {"refresh", "reply"} /\ proc'[p] # proc[p]

\* C16 - A recovery pass reads only: every step that runs publishDiagnostics
\* leaves every comment file as it was, its commit, its patches, their
\* messages and their order.
C16_PassReadsOnly == [][RecoveryStep => store' = store]_vars

\* C16 witness: a run made after an edit of the working copy has read the
\* comment file, one of whose patches cannot be applied, and the file is
\* still as it was read
C16_Witness ==
    /\ pass.outcome = "published"
    /\ edits > 0
    /\ pass.text = content
    /\ \E i \in 1..Len(pass.file.Patches) : ~Applies(pass, i)
    /\ AnchorFile = pass.file
    /\ \A p \in Procs : proc[p].pc = "idle"

\* C17 - One comment file per source path: every comment file that holds
\* anchors of the source file is the file that the path of the source file
\* resolves to, now as when the anchors were saved.
C17_OnePathOneFile ==
    \A f \in CommentPaths : store[f].exists => f = getCommentFilePath

\* C18 - Non-empty message: every patch of every comment file has a
\* message that is not the empty string.
C18_MessageNonEmpty ==
    \A f \in CommentPaths :
        (store[f].exists /\ Parses(store[f]))
        => \A i \in 1..Len(store[f].Patches) : store[f].Patches[i].Message # ""

\* handler p waits in publishDiagnostics for git branch --contains to end
Querying(p) == proc[p].pc = "query"

\* C19 - Bounded query: a run of publishDiagnostics that has started its
\* query of the repository comes to its end, whether git answers or not.
C19_PassCompletes == \A p \in Procs : Querying(p) ~> ~Querying(p)

\* the patches of the comment file of a run that can be applied
Applying(run) == {i \in 1..Len(run.file.Patches) : Applies(run, i)}

\* the d-th of them, in the order of the comment file
NthApplying(run, d) ==
    LET applying == Applying(run)
    IN  CHOOSE i \in applying : Cardinality({j \in applying : j <= i}) = d

\* C20 - Ordered markers: the notification of a run holds one diagnostic
\* for each patch of the comment file that can be applied, in the order of
\* the comment file, with the message of the patch, the severity hint and
\* the range found for that patch, and these are what the editor shows.
C20_OrderedMarkers ==
    pass.outcome = "published"
    => /\ Len(pass.diagnostics) = Cardinality(Applying(pass))
       /\ \A d \in 1..Len(pass.diagnostics) :
             pass.diagnostics[d] = DiagnosticOf(pass, NthApplying(pass, d))
       /\ \A d \in 1..Len(pass.diagnostics) : pass.diagnostics[d].severity = "hint"

\* C20 witness: a run has published the diagnostics of two patches with
\* different messages
C20_Witness ==
    /\ pass.outcome = "published"
    /\ Len(pass.diagnostics) = 2
    /\ pass.diagnostics[1].message = pass.file.Patches[1].Message
    /\ pass.diagnostics[1].message # pass.diagnostics[2].message
    /\ markers = pass.diagnostics

-----------------------------------------------------------------------------
\* the number of selected lines of a hunk: its removed lines
IsRemoved(diff) == diff.op = "delete"

SelectionLength(hunk) == Len(SelectSeq(hunk.diffs, IsRemoved))

\* the start of the range of patch i is where its hunk is found in the
\* text of the run, plus contextBefore
StartsWhereFound(run, i) ==
    \A loc \in MatchLocs(run.text, WindowOf(run, i)) :
        run.located[i].range.start = ToUint32(loc + contextBefore)

\* C21 - Post-apply range: a patch whose hunk is found in the text of a run
\* is reported with start = the line where the hunk is found + contextBefore
\* and end = start + the number of selected lines.
C21_PostApplyRange ==
    pass.outcome = "published"
    => \A i \in Reported(pass) :
          (WindowOf(pass, i) # <<>>)
          => /\ StartsWhereFound(pass, i)
             /\ MatchLocs(pass.text, WindowOf(pass, i)) # {}
                => pass.located[i].range.end
                      = Uint32Plus(pass.located[i].range.start,
                                   SelectionLength(HunkOf(pass, i)))

\* the first half of C21 alone
C21_StartOnly ==
    pass.outcome = "published"
    => \A i \in Reported(pass) : (WindowOf(pass, i) # <<>>) => StartsWhereFound(pass, i)

\* the comment file is loaded and the gate lets it through: its commit is
\* empty, or the query that the run makes succeeds and finds the commit
VisibleTo(loaded, run) ==
    /\ ~loaded.err
    /\ \/ loaded.data.Commit = NoCommit
       \/ ~run.gate.err /\ BranchesContaining(loaded.data.Commit) # {}

C23_LiveContent == [][NotifiedStep => pass'.text = buffer]_vars

\* C24 - Markers follow the last run: once a run of publishDiagnostics has
\* been made, the diagnostics the editor holds are those that run computed,
\* none when the run found no comment file, a commit not on a branch or a
\* failing query.
C24_MarkersFollowPass == pass.outcome # "none" => markers = pass.diagnostics

\* a uint32 line number is that of a line of the text
IsLineOf(u, text) == u.hi = 0 /\ u.lo < Len(text)

\* start <= end in uint32
Uint32LessEq(u, v) == u.hi < v.hi \/ (u.hi = v.hi /\ u.lo <= v.lo)

\* C25 - Well-formed ranges: every range a run publishes has its start not
\* after its end, and both are line numbers of the text of the run.
C25_WellFormedRanges ==
    \A d \in 1..Len(pass.diagnostics) :
        /\ Uint32LessEq(pass.diagnostics[d].range.start, pass.diagnostics[d].range.end)
        /\ IsLineOf(pass.diagnostics[d].range.start, pass.text)
        /\ IsLineOf(pass.diagnostics[d].range.end, pass.text)


\* a part of C25 alone: no published line number is a negative value
\* wrapped by the conversion to uint32
C25_NoWrap ==
    \A d \in 1..Len(pass.diagnostics) :
        pass.diagnostics[d].range.start.hi = 0 /\ pass.diagnostics[d].range.end.hi = 0

\* C26 - One verdict per file: a run that has loaded the comment file
\* queries the repository at most once, about the commit of the file, and
\* either publishes every patch that can be applied or, the query failing
\* or finding the commit on no branch, publishes none of them.
C26_OneVerdictPerFile ==
    (Loaded(pass) /\ Parses(pass.file))
    => /\ pass.queried = (pass.file.Commit # NoCommit)
       /\ \/ AllLocatableReported(pass) /\ Len(pass.diagnostics) = Cardinality(Applying(pass))
          \/ /\ pass.outcome \in {"vcs error", "not on branch"}
             /\ pass.diagnostics = <<>>
       /\ pass.outcome = "not on branch"
             <=> (pass.queried /\ ~pass.gate.err /\ pass.gate.output = {})

\* C26 witness: a run over a comment file of two patches, both of which can
\* be applied, has found the commit of the file on no branch, after a
\* second commit was made, and has published neither
C26_Witness ==
    /\ pass.outcome = "not on branch"
    /\ Len(pass.file.Patches) = 2
    /\ Applies(pass, 1)
    /\ Applies(pass, 2)
    /\ pass.diagnostics = <<>>
    /\ commits >= 2

\* the body lines of a hunk on its old side and on its new side
IsOldLine(line) == line.sign # "+"
IsNewLine(line) == line.sign # "-"

\* a hunk captured from a text of linesCount lines is self-consistent: its
\* window lies in the text, start before end, and its header lengths are
\* the numbers of old-side and new-side lines of its body
SelfConsistent(hunk, linesCount) ==
    /\ 0 <= hunk.start1 - 1
    /\ 0 <= hunk.length1
    /\ hunk.start1 - 1 + hunk.length1 <= linesCount
    /\ hunk.length1 = Len(SelectSeq(hunk.body, IsOldLine))
    /\ hunk.length2 = Len(SelectSeq(hunk.body, IsNewLine))

\* handler p builds its patch text at this step
Captures(p) == proc[p].pc = "idle" /\ proc'[p].pc = "load"

\* C27 - Self-consistent hunk: the patch text that a comment.add builds,
\* for any requested range, is one hunk that is self-consistent for the
\* text it was captured from.
C27_SelfConsistentHunk ==
    [][ \A p \in Procs :
           Captures(p)
           => /\ Len(proc'[p].patchText) = 1
              /\ SelfConsistent(proc'[p].patchText[1], Len(content)) ]_vars


\* C27 for the ranges whose start is not after their end, past the end of
\* the file or not
C27_ForwardRanges ==
    [][ \A p \in Procs :
           (Captures(p) /\ proc'[p].rng.start <= proc'[p].rng.end)
           => /\ Len(proc'[p].patchText) = 1
              /\ SelfConsistent(proc'[p].patchText[1], Len(content)) ]_vars

=============================================================================
